---- MODULE Spec2Model ----
(***************************************************************************)
(* kernel/random.c: the pseudo-random character device.  An 8-bit LFSR     *)
(* (lfsr_char) whose state rand.seed is guarded by the spinlock rand.lock, *)
(* read through randomread, reseeded through randomwrite, set up by        *)
(* randominit.                                                             *)
(***************************************************************************)
EXTENDS Integers, Sequences, FiniteSets, TLC

\* ------------------------------------------------------------------ bounds
\* Number of kernel contexts that call into the device concurrently.
NProcs == 2
\* Total number of randomread/randomwrite calls dispatched in one behaviour.
MaxCalls == 2
\* Largest length a caller asks randomread for (above the ceiling of 8).
MaxLen == 9

Procs == 1..NProcs

\* ------------------------------------------------- C integer operators
Byte == 0..255

\* (uint8) x : truncation to 8 bits
U8(x) == x % 256

\* x >> k on a non-negative int
Shr(x, k) == x \div (2 ^ k)

\* x << k on a non-negative int
Shl(x, k) == x * (2 ^ k)

\* a ^ b, bit by bit
Xor(a, b) ==
  LET xor[x \in Nat, y \in Nat] ==
        IF x = 0 THEN y
        ELSE IF y = 0 THEN x
        ELSE (((x % 2) + (y % 2)) % 2) + 2 * xor[x \div 2, y \div 2]
  IN  xor[a, b]

\* a & b, bit by bit
And(a, b) ==
  LET and[x \in Nat, y \in Nat] ==
        IF x = 0 \/ y = 0 THEN 0
        ELSE ((x % 2) * (y % 2)) + 2 * and[x \div 2, y \div 2]
  IN  and[a, b]

\* a | b, bit by bit
Or(a, b) ==
  LET or[x \in Nat, y \in Nat] ==
        IF x = 0 THEN y
        ELSE IF y = 0 THEN x
        ELSE (IF x % 2 = 1 \/ y % 2 = 1 THEN 1 ELSE 0) + 2 * or[x \div 2, y \div 2]
  IN  or[a, b]

\* ------------------------------------------------------------ lfsr_char
\* A wrong tap: bit 1 in place of bit 2.
lfsr_char_tap1(lfsr) ==
  LET bit == U8(And(Xor(Xor(Xor(Shr(lfsr, 0), Shr(lfsr, 1)), Shr(lfsr, 3)), Shr(lfsr, 4)), 1))
  IN  U8(Or(Shr(lfsr, 1), Shl(bit, 7)))

\* The feedback bit inverted (an xnor register).
lfsr_char_xnor(lfsr) ==
  LET bit == U8(And(Xor(Xor(Xor(Shr(lfsr, 0), Shr(lfsr, 2)), Shr(lfsr, 3)), Shr(lfsr, 4)), 1))
  IN  U8(Or(Shr(lfsr, 1), Shl(1 - bit, 7)))

\* The feedback bit never inserted: a plain right shift.
lfsr_char_nofb(lfsr) == U8(Shr(lfsr, 1))

\* uint8 lfsr_char(uint8 lfsr)
lfsr_char(lfsr) ==
  LET bit == U8(And(Xor(Xor(Xor(Shr(lfsr, 0), Shr(lfsr, 2)), Shr(lfsr, 3)), Shr(lfsr, 4)), 1))
  IN  U8(Or(Shr(lfsr, 1), Shl(bit, 7)))


\* ------------------------------------------------------ address spaces
\* Addresses a caller may pass; a user buffer starts at 1, a kernel buffer
\* at MaxLen + 2, each with room for a full transfer.
Addr == 0..(2 * MaxLen + 2)

\* Kernel addresses that are mapped.
KValid == (MaxLen + 2)..(2 * MaxLen + 2)

\* User addresses that are mapped when the system starts.
UValid0 == 0..(MaxLen + 1)

\* Initial contents of user memory (address 1 holds the byte 0x00).
UMem0 == [a \in Addr |-> IF a = 1 THEN 0 ELSE (a * 37 + 90) % 256]

\* Initial contents of kernel memory.
KMem0 == [a \in Addr |-> (a * 29 + 7) % 256]

\* Arguments the callers are drawn from, as << indicator, address, length >>.
\* Reads: into the user buffer at 1 with every length of ReadLens, into an
\* unmapped user address, into the kernel buffer.
ReadLens == {-1, 0, 3, MaxLen - 1, MaxLen}
ReadArgs ==
  {<< 1, 1, len >> : len \in ReadLens}
    \cup {<< 1, MaxLen + 2, 3 >>, << 0, MaxLen + 2, 1 >>}

\* Writes of one byte: from the user addresses 0, 1 and 2, from an unmapped
\* user address, from the kernel buffer, from an unmapped kernel address;
\* and writes of every other length of WriteLens.
WriteLens == {-1, 0, 1, 2}
WriteArgs ==
  {<< 1, 0, 1 >>, << 1, 1, 1 >>, << 1, 2, 1 >>, << 1, MaxLen + 2, 1 >>,
   << 0, MaxLen + 2, 1 >>, << 0, 1, 1 >>}
    \cup {<< 1, 2, len >> : len \in WriteLens}

\* User addresses whose mapping may go away while the system runs.
Revocable == {1}

\* ---------------------------------------------------------------- state
VARIABLES
  seed,     \* rand.seed
  lock,     \* rand.lock: [locked, cpu]
  devsw,    \* devsw[RANDOM]: which handlers are registered
  initpc,   \* position of the boot context inside randominit
  pc,       \* pc[p]: position of context p inside randomread/randomwrite
  op,       \* op[p]: the handler p is running ("read", "write", "none")
  fd,       \* fd[p]: first argument (the user/kernel indicator devsw passes)
  addr,     \* addr[p]: second argument (dst of a read, src of a write)
  n,        \* n[p]: third argument, as the local variable the code mutates
  reqn,     \* reqn[p]: third argument as the caller passed it
  i,        \* i[p]: loop counter of randomread
  ret,      \* ret[p]: value returned by the last finished call
  seed0,    \* seed0[p]: rand.seed when p acquired the lock
  failed,   \* failed[p]: number of the copy-out that returned -1 (0: none)
  umem,     \* user memory contents
  kmem,     \* kernel memory contents
  uvalid,   \* user addresses currently mapped
  calls,    \* number of calls dispatched so far
  wrote,    \* byte stored by a write from a valid source, if it was the last device operation (-1: none)
  access,   \* last access to rand.seed: [by, held]
  lfsr_in,  \* argument of a stand-alone lfsr_char evaluation
  lfsr_out, \* its result (-1: not evaluated)
  gold,     \* bytes emitted since randominit, while no copy failed and no write ran (-1: not counted)
  orbit     \* values produced by advancing lfsr_in repeatedly, oldest first

vars == << seed, lock, devsw, initpc, pc, op, fd, addr, n, reqn, i, ret, seed0,
           failed, umem, kmem, uvalid, calls, wrote, access, lfsr_in, lfsr_out,
           gold, orbit >>

\* The frames of the calling contexts.
frame == << op, fd, addr, n, reqn, i, ret, seed0, failed >>
\* Memory.
mem == << umem, kmem, uvalid >>
\* Stand-alone lfsr_char evaluation.
pure == << lfsr_in, lfsr_out >>
\* History kept for the emitted sequence and for the orbit of lfsr_char.
hist == << gold, orbit >>

\* The context that runs randominit.
BootCtx == 0

NoAccess == [by |-> -1, held |-> TRUE]

\* --------------------------------------------------- kernel collaborators
\* spinlock.c initlock(): the lock is free.
initlock == [locked |-> 0, cpu |-> -1]

\* spinlock.c acquire(): spins until the lock is free.
CanAcquire(lk) == lk.locked = 0

\* spinlock.c acquire(): the lock as the acquiring context leaves it.
acquire(p) == [locked |-> 1, cpu |-> p]

\* spinlock.c release().
release == [locked |-> 0, cpu |-> -1]

\* spinlock.c holding().
holding(lk, p) == lk.locked = 1 /\ lk.cpu = p

\* proc.c either_copyout(user_dst, dst, src, 1): copy one byte to a user or a
\* kernel address; 0 on success, -1 when the address is not mapped.
either_copyout(user_dst, dst, byte) ==
  IF user_dst # 0
  THEN IF dst \in uvalid
       THEN [rc |-> 0, um |-> [umem EXCEPT ![dst] = byte], km |-> kmem]
       ELSE [rc |-> -1, um |-> umem, km |-> kmem]
  ELSE IF dst \in KValid
       THEN [rc |-> 0, um |-> umem, km |-> [kmem EXCEPT ![dst] = byte]]
       ELSE [rc |-> -1, um |-> umem, km |-> kmem]

\* proc.c either_copyin(dst, user_src, src, 1): copy one byte from a user or a
\* kernel address into *dst (whose value was old); 0 on success, -1 when the
\* address is not mapped, and then *dst keeps its value.
either_copyin(old, user_src, src) ==
  IF user_src # 0
  THEN IF src \in uvalid
       THEN [rc |-> 0, val |-> umem[src]]
       ELSE [rc |-> -1, val |-> old]
  ELSE IF src \in KValid
       THEN [rc |-> 0, val |-> kmem[src]]
       ELSE [rc |-> -1, val |-> old]

\* main.c: user processes are scheduled only after every init routine ran.
Served == initpc = "done"

\* ----------------------------------------------------------------- Init
\* The device and its callers before randominit runs (rand is zeroed).
InitDevice ==
  /\ seed = 0
  /\ lock = [locked |-> 0, cpu |-> -1]
  /\ devsw = [read |-> FALSE, write |-> FALSE]
  /\ initpc = "initlock"
  /\ pc = [p \in Procs |-> "idle"]
  /\ op = [p \in Procs |-> "none"]
  /\ fd = [p \in Procs |-> 0]
  /\ addr = [p \in Procs |-> 0]
  /\ n = [p \in Procs |-> 0]
  /\ reqn = [p \in Procs |-> 0]
  /\ i = [p \in Procs |-> 0]
  /\ ret = [p \in Procs |-> 0]
  /\ seed0 = [p \in Procs |-> 0]
  /\ failed = [p \in Procs |-> 0]
  /\ umem = UMem0
  /\ kmem = KMem0
  /\ uvalid = UValid0
  /\ calls = 0
  /\ wrote = -1
  /\ access = NoAccess

Init ==
  /\ InitDevice
  /\ lfsr_in = 0
  /\ lfsr_out = -1
  /\ gold = -1
  /\ orbit = << >>

\* ------------------------------------------------------------ randominit
\* line 103: initlock(&rand.lock, "rand")
InitLock ==
  /\ initpc = "initlock"
  /\ lock' = initlock
  /\ initpc' = "devread"
  /\ UNCHANGED << seed, devsw, pc, frame, mem, calls, wrote, access, pure, hist >>

\* line 106: devsw[RANDOM].read = randomread
InitDevRead ==
  /\ initpc = "devread"
  /\ devsw' = [devsw EXCEPT !.read = TRUE]
  /\ initpc' = "devwrite"
  /\ UNCHANGED << seed, lock, pc, frame, mem, calls, wrote, access, pure, hist >>

\* line 107: devsw[RANDOM].write = randomwrite
InitDevWrite ==
  /\ initpc = "devwrite"
  /\ devsw' = [devsw EXCEPT !.write = TRUE]
  /\ initpc' = "seed"
  /\ UNCHANGED << seed, lock, pc, frame, mem, calls, wrote, access, pure, hist >>

\* An initial seed with its two digits swapped.
InitSeed_swapped ==
  /\ initpc = "seed"
  /\ seed' = 162
  /\ access' = [by |-> BootCtx, held |-> holding(lock, BootCtx)]
  /\ initpc' = "done"
  /\ UNCHANGED << lock, devsw, pc, frame, mem, calls, wrote, pure, hist >>

\* line 108: rand.seed = 0x2A
InitSeed ==
  /\ initpc = "seed"
  /\ seed' = 42
  /\ access' = [by |-> BootCtx, held |-> holding(lock, BootCtx)]
  /\ initpc' = "done"
  /\ UNCHANGED << lock, devsw, pc, frame, mem, calls, wrote, pure, hist >>

randominit == InitLock \/ InitDevRead \/ InitDevWrite \/ InitSeed

\* ------------------------------------------------------------ randomread
\* The kernel dispatches read(fd, dst, len) on the device to context p.
CallRead(p, f, d, len) ==
  /\ Served /\ devsw.read
  /\ pc[p] = "idle"
  /\ calls < MaxCalls
  /\ calls' = calls + 1
  /\ pc' = [pc EXCEPT ![p] = "r_acquire"]
  /\ op' = [op EXCEPT ![p] = "read"]
  /\ fd' = [fd EXCEPT ![p] = f]
  /\ addr' = [addr EXCEPT ![p] = d]
  /\ n' = [n EXCEPT ![p] = len]
  /\ reqn' = [reqn EXCEPT ![p] = len]
  /\ UNCHANGED << seed, lock, devsw, initpc, i, ret, seed0, failed, mem, wrote,
                  access, pure, hist >>

\* A read that transfers whatever length was asked for.
Clamp_none(len) == len

\* lines 58-61: if (n > 8) n = 8
Clamp(len) == IF len > 8 THEN 8 ELSE len

\* randomread entered without taking the lock.
RAcquire_skip(p) ==
  /\ pc[p] = "r_acquire"
  /\ seed0' = [seed0 EXCEPT ![p] = seed]
  /\ n' = [n EXCEPT ![p] = Clamp(n[p])]
  /\ i' = [i EXCEPT ![p] = 0]
  /\ pc' = [pc EXCEPT ![p] = "r_loop"]
  /\ UNCHANGED << seed, lock, devsw, initpc, op, fd, addr, reqn, ret, failed,
                  mem, calls, wrote, access, pure, hist >>

\* lines 57-63: acquire(&rand.lock); clamp n; i = 0
RAcquire(p) ==
  /\ pc[p] = "r_acquire"
  /\ CanAcquire(lock)
  /\ lock' = acquire(p)
  /\ seed0' = [seed0 EXCEPT ![p] = seed]
  /\ n' = [n EXCEPT ![p] = Clamp(n[p])]
  /\ i' = [i EXCEPT ![p] = 0]
  /\ pc' = [pc EXCEPT ![p] = "r_loop"]
  /\ UNCHANGED << seed, devsw, initpc, op, fd, addr, reqn, ret, failed, mem,
                  calls, wrote, access, pure, hist >>

\* A loop that ignores the result of the copy.
CopyFailed_never(rc) == FALSE

\* line 67: either_copyout(...) == -1
CopyFailed(rc) == rc = -1

\* A loop that runs until i equals n.
LoopCond_ne(k, len) == k # len

\* line 63: i < n
LoopCond(k, len) == k < len

\* lines 63-71: one iteration of the loop, taken while i < n
RStep(p) ==
  /\ pc[p] = "r_loop"
  /\ LoopCond(i[p], n[p])
  /\ LET lfsrRet == lfsr_char(seed)
         co == either_copyout(fd[p], addr[p], lfsrRet)
     IN  /\ seed' = lfsrRet
         /\ umem' = co.um
         /\ kmem' = co.km
         /\ failed' = IF co.rc = -1 /\ failed[p] = 0
                       THEN [failed EXCEPT ![p] = i[p] + 1]
                       ELSE failed
         /\ gold' = IF gold >= 0 /\ co.rc = 0 THEN gold + 1 ELSE -1
         /\ IF CopyFailed(co.rc)
            THEN /\ pc' = [pc EXCEPT ![p] = "r_release"]
                 /\ i' = i
            ELSE /\ i' = [i EXCEPT ![p] = i[p] + 1]
                 /\ pc' = pc
  /\ access' = [by |-> p, held |-> holding(lock, p)]
  /\ wrote' = -1
  /\ UNCHANGED << lock, devsw, initpc, op, fd, addr, n, reqn, ret, seed0,
                  uvalid, calls, pure, orbit >>

\* line 63: the loop ends because i < n is false
RExit(p) ==
  /\ pc[p] = "r_loop"
  /\ ~LoopCond(i[p], n[p])
  /\ pc' = [pc EXCEPT ![p] = "r_release"]
  /\ wrote' = -1
  /\ UNCHANGED << seed, lock, devsw, initpc, frame, mem, calls, access, pure, hist >>

\* A read that forgets to release the lock after a failed copy.
RRelease_keep(p) ==
  /\ pc[p] = "r_release"
  /\ lock' = IF failed[p] # 0 THEN lock ELSE release
  /\ ret' = [ret EXCEPT ![p] = i[p]]
  /\ pc' = [pc EXCEPT ![p] = "done"]
  /\ UNCHANGED << seed, devsw, initpc, op, fd, addr, n, reqn, i, seed0, failed,
                  mem, calls, wrote, access, pure, hist >>

\* lines 73-74: release(&rand.lock); return i
RRelease(p) ==
  /\ pc[p] = "r_release"
  /\ lock' = release
  /\ ret' = [ret EXCEPT ![p] = i[p]]
  /\ pc' = [pc EXCEPT ![p] = "done"]
  /\ UNCHANGED << seed, devsw, initpc, op, fd, addr, n, reqn, i, seed0, failed,
                  mem, calls, wrote, access, pure, hist >>

randomread(p) == RAcquire(p) \/ RStep(p) \/ RExit(p) \/ RRelease(p)

\* ----------------------------------------------------------- randomwrite
\* The buffer a caller designates with the indicator f and the address a
\* (the first two arguments of a devsw handler): is it mapped ...
ValidAt(f, a) == IF f # 0 THEN a \in uvalid ELSE a \in KValid

\* ... and the byte it holds.
ByteAt(f, a) == IF f # 0 THEN umem[a] ELSE kmem[a]

\* The kernel dispatches write(fd, src, len) on the device to context p.
CallWrite(p, f, s, len) ==
  /\ Served /\ devsw.write
  /\ pc[p] = "idle"
  /\ calls < MaxCalls
  /\ calls' = calls + 1
  /\ pc' = [pc EXCEPT ![p] = "w_check"]
  /\ op' = [op EXCEPT ![p] = "write"]
  /\ fd' = [fd EXCEPT ![p] = f]
  /\ addr' = [addr EXCEPT ![p] = s]
  /\ n' = [n EXCEPT ![p] = len]
  /\ reqn' = [reqn EXCEPT ![p] = len]
  /\ UNCHANGED << seed, lock, devsw, initpc, i, ret, seed0, failed, mem, wrote,
                  access, pure, hist >>

\* A length check that lets a length of 0 through.
WrongLen_gt(len) == len > 1

\* line 85: n != 1
WrongLen(len) == len # 1

\* lines 85-89: if (n != 1) return -1; int ret = 1
WCheck(p) ==
  /\ pc[p] = "w_check"
  /\ IF WrongLen(n[p])
     THEN /\ ret' = [ret EXCEPT ![p] = -1]
          /\ pc' = [pc EXCEPT ![p] = "done"]
          /\ wrote' = -1
     ELSE /\ ret' = [ret EXCEPT ![p] = 1]
          /\ pc' = [pc EXCEPT ![p] = "w_acquire"]
          /\ wrote' = wrote
  /\ UNCHANGED << seed, lock, devsw, initpc, op, fd, addr, n, reqn, i, seed0,
                  failed, mem, calls, access, pure, hist >>

\* randomwrite entered without taking the lock.
WAcquire_skip(p) ==
  /\ pc[p] = "w_acquire"
  /\ seed0' = [seed0 EXCEPT ![p] = seed]
  /\ pc' = [pc EXCEPT ![p] = "w_copy"]
  /\ wrote' = -1
  /\ UNCHANGED << seed, lock, devsw, initpc, op, fd, addr, n, reqn, i, ret,
                  failed, mem, calls, access, pure, hist >>

\* line 90: acquire(&rand.lock)
WAcquire(p) ==
  /\ pc[p] = "w_acquire"
  /\ CanAcquire(lock)
  /\ lock' = acquire(p)
  /\ seed0' = [seed0 EXCEPT ![p] = seed]
  /\ pc' = [pc EXCEPT ![p] = "w_copy"]
  /\ wrote' = -1
  /\ UNCHANGED << seed, devsw, initpc, op, fd, addr, n, reqn, i, ret, failed,
                  mem, calls, access, pure, hist >>

\* line 91: ret = either_copyin(&rand.seed, src, src, 1)
WCopy(p) ==
  /\ pc[p] = "w_copy"
  /\ LET ci == either_copyin(seed, addr[p], addr[p])
     IN  /\ seed' = ci.val
         /\ ret' = [ret EXCEPT ![p] = ci.rc]
  /\ wrote' = IF ValidAt(fd[p], addr[p]) THEN ByteAt(fd[p], addr[p]) ELSE -1
  /\ access' = [by |-> p, held |-> holding(lock, p)]
  /\ pc' = [pc EXCEPT ![p] = "w_release"]
  /\ gold' = -1
  /\ UNCHANGED << lock, devsw, initpc, op, fd, addr, n, reqn, i, seed0, failed,
                  mem, calls, pure, orbit >>

\* A write that returns without releasing the lock.
WRelease_keep(p) ==
  /\ pc[p] = "w_release"
  /\ pc' = [pc EXCEPT ![p] = "done"]
  /\ UNCHANGED << seed, lock, devsw, initpc, frame, mem, calls, wrote, access,
                  pure, hist >>

\* lines 92-93: release(&rand.lock); return ret
WRelease(p) ==
  /\ pc[p] = "w_release"
  /\ lock' = release
  /\ pc' = [pc EXCEPT ![p] = "done"]
  /\ UNCHANGED << seed, devsw, initpc, frame, mem, calls, wrote, access, pure, hist >>

randomwrite(p) == WCheck(p) \/ WAcquire(p) \/ WCopy(p) \/ WRelease(p)

\* ---------------------------------------------------------- environment
\* The caller takes the result; the context is free for the next call.
Return(p) ==
  /\ pc[p] = "done"
  /\ pc' = [pc EXCEPT ![p] = "idle"]
  /\ op' = [op EXCEPT ![p] = "none"]
  /\ fd' = [fd EXCEPT ![p] = 0]
  /\ addr' = [addr EXCEPT ![p] = 0]
  /\ n' = [n EXCEPT ![p] = 0]
  /\ reqn' = [reqn EXCEPT ![p] = 0]
  /\ i' = [i EXCEPT ![p] = 0]
  /\ ret' = [ret EXCEPT ![p] = 0]
  /\ seed0' = [seed0 EXCEPT ![p] = 0]
  /\ failed' = [failed EXCEPT ![p] = 0]
  /\ UNCHANGED << seed, lock, devsw, initpc, mem, calls, wrote, access, pure, hist >>

\* A user address stops being mapped (a destination that becomes invalid in
\* the middle of a transfer).
Invalidate(a) ==
  /\ Served
  /\ a \in uvalid
  /\ uvalid' = uvalid \ {a}
  /\ UNCHANGED << seed, lock, devsw, initpc, pc, frame, umem, kmem, calls,
                  wrote, access, pure, hist >>

\* ------------------------------------------------------- specifications
Next ==
  \/ randominit
  \/ \E p \in Procs, a \in ReadArgs : CallRead(p, a[1], a[2], a[3])
  \/ \E p \in Procs, a \in WriteArgs : CallWrite(p, a[1], a[2], a[3])
  \/ \E p \in Procs : randomread(p)
  \/ \E p \in Procs : randomwrite(p)
  \/ \E p \in Procs : Return(p)
  \/ \E a \in Revocable : Invalidate(a)

Spec == Init /\ [][Next]_vars

\* Fair scheduling: a context that can take a step of its handler keeps
\* running (it holds the spinlock with interrupts off, and the copy
\* primitive completes), and a context spinning in acquire gets the lock
\* if the lock is free again and again.
Fair ==
  \A p \in Procs :
    /\ WF_vars(randomread(p) \/ randomwrite(p))
    /\ SF_vars(RAcquire(p) \/ WAcquire(p))

SpecLive == Init /\ [][Next]_vars /\ Fair

\* lfsr_char on its own: every 8-bit argument, one evaluation.
InitLfsr ==
  /\ InitDevice
  /\ lfsr_in \in Byte
  /\ lfsr_out = -1
  /\ gold = -1
  /\ orbit = << >>

\* lfsr_out = lfsr_char(lfsr_in)
ApplyLfsr ==
  /\ lfsr_out = -1
  /\ lfsr_out' = lfsr_char(lfsr_in)
  /\ UNCHANGED << seed, lock, devsw, initpc, pc, frame, mem, calls, wrote,
                  access, lfsr_in, hist >>

NextLfsr == ApplyLfsr

SpecLfsr == InitLfsr /\ [][NextLfsr]_vars

\* The seed advanced again and again with no write in between: lfsr_in is
\* the non-zero seed at the start, orbit the seeds that follow it.
InitPeriod ==
  /\ InitDevice
  /\ lfsr_in \in Byte \ {0}
  /\ lfsr_out = -1
  /\ gold = -1
  /\ orbit = << >>

\* The number of non-zero values of a uint8.
Period == Cardinality(Byte \ {0})

\* lines 65-66, one more time: the next seed is lfsr_char of the last one.
Advance ==
  /\ Len(orbit) < Period
  /\ orbit' = Append(orbit, lfsr_char(IF orbit = << >> THEN lfsr_in
                                                         ELSE orbit[Len(orbit)]))
  /\ UNCHANGED << seed, lock, devsw, initpc, pc, frame, mem, calls, wrote,
                  access, pure, gold >>

NextPeriod == Advance

SpecPeriod == InitPeriod /\ [][NextPeriod]_vars

\* The device read by its callers and never written: the emitted bytes are
\* counted from randominit on.
InitGolden ==
  /\ InitDevice
  /\ lfsr_in = 0
  /\ lfsr_out = -1
  /\ gold = 0
  /\ orbit = << >>

NextGolden ==
  \/ randominit
  \/ \E p \in Procs, a \in ReadArgs : CallRead(p, a[1], a[2], a[3])
  \/ \E p \in Procs : randomread(p)
  \/ \E p \in Procs : Return(p)
  \/ \E a \in Revocable : Invalidate(a)

SpecGolden == InitGolden /\ [][NextGolden]_vars

\* ---------------------------------------------------------------- claims
\* Bit k of x.
Bit(x, k) == (x \div (2 ^ k)) % 2

RECURSIVE Iter(_, _)
\* lfsr_char applied k times to s.
Iter(k, s) == IF k = 0 THEN s ELSE lfsr_char(Iter(k - 1, s))

\* The step taken is context p running WCopy.
CopyIn(p) == pc[p] = "w_copy" /\ pc'[p] = "w_release"

\* Context p is between its acquire and its release.
InCS(p) == pc[p] \in {"r_loop", "r_release", "w_copy", "w_release"}

\* Context p waits for the lock.
Waiting(p) == pc[p] \in {"r_acquire", "w_acquire"}

\* C1: for every 8-bit s, lfsr_char(s) is s shifted right by one with bit 7
\* set to the exclusive-or of bits 0, 2, 3 and 4 of s, and is an 8-bit value.
C1_LfsrShape ==
  lfsr_out # -1 =>
    /\ lfsr_out \in Byte
    /\ lfsr_out = (lfsr_in \div 2)
         + 128 * ((Bit(lfsr_in, 0) + Bit(lfsr_in, 2) + Bit(lfsr_in, 3) + Bit(lfsr_in, 4)) % 2)

\* lfsr_char(0x2A) = 0x95: the feedback bit is set and shifted in at bit 7.
C1_Witness == lfsr_in = 42 /\ lfsr_out = 149

\* C2: when the loop of randomread has ended and the call is about to return
\* i, the destination holds the emitted bytes at consecutive offsets: offset
\* k holds lfsr_char applied k+1 times to the seed the call started from.
C2_ConsecutiveOffsets ==
  \A p \in Procs :
    pc[p] = "r_release" =>
      \A k \in 0..(i[p] - 1) :
        ByteAt(fd[p], addr[p] + k) = Iter(k + 1, seed0[p])

\* C3: a randomread whose copies all succeed, called with n >= 0, returns
\* min(n, 8) (8 when n > 8) and leaves the seed advanced exactly that many
\* times.
C3_ClampedCount ==
  \A p \in Procs :
    LET k == IF reqn[p] > 8 THEN 8 ELSE reqn[p]
    IN  (op[p] = "read" /\ reqn[p] >= 0 /\ failed[p] = 0) =>
          /\ pc[p] = "r_release" => (i[p] = k /\ seed = Iter(k, seed0[p]))
          /\ pc[p] = "done" => ret[p] = k

\* A read asked for more than 8 bytes, every copy succeeded, it returned 8.
C3_Witness ==
  \E p \in Procs :
    /\ pc[p] = "done" /\ op[p] = "read" /\ reqn[p] > 8
    /\ failed[p] = 0 /\ ret[p] = 8

\* C4: when the j-th copy-out of a randomread is the first to fail, the loop
\* stops there: the call returns j-1 and the seed has advanced exactly j
\* times, with 1 <= j <= min(n, 8).
C4_ShortCount ==
  \A p \in Procs :
    (op[p] = "read" /\ failed[p] >= 1) =>
      /\ failed[p] <= (IF reqn[p] > 8 THEN 8 ELSE reqn[p])
      /\ pc[p] # "r_loop"
      /\ pc[p] = "r_release" =>
           (i[p] = failed[p] - 1 /\ seed = Iter(failed[p], seed0[p]))
      /\ pc[p] = "done" => ret[p] = failed[p] - 1

\* The third copy failed and the read returned 2.
C4_Witness ==
  \E p \in Procs :
    pc[p] = "done" /\ op[p] = "read" /\ failed[p] = 3 /\ ret[p] = 2

\* C5: a randomwrite of length 1 from a valid source returns 1.
C5_WriteReturnsOne ==
  [][\A p \in Procs :
       (CopyIn(p) /\ ValidAt(fd[p], addr[p])) => ret'[p] = 1]_vars

\* C6: a randomwrite of length 1 from a valid source holding b leaves the
\* seed equal to b, and when the next operation on the device is a read that
\* emits at least one byte, its first byte is lfsr_char(b).
C6_Reseed ==
  [][\A p \in Procs :
       /\ (CopyIn(p) /\ ValidAt(fd[p], addr[p])) =>
            seed' = ByteAt(fd[p], addr[p])
       /\ (pc[p] = "r_loop" /\ i[p] = 0 /\ i'[p] = 1 /\ wrote # -1) =>
            /\ seed' = lfsr_char(wrote)
            /\ ByteAt(fd[p], addr[p])' = lfsr_char(wrote)]_vars

\* C7: a randomwrite with a length other than 1 returns -1 in one step that
\* changes neither the seed nor the lock, whoever holds the lock, and the
\* calling context never holds or waits for the lock during the call.
C7_RejectWrongLength ==
  [][\A p \in Procs :
       /\ (pc[p] = "w_check" /\ reqn[p] # 1 /\ pc'[p] # "w_check") =>
            /\ pc'[p] = "done"
            /\ ret'[p] = -1
            /\ seed' = seed
            /\ lock' = lock
       /\ (op'[p] = "write" /\ reqn'[p] # 1) =>
            /\ pc'[p] \in {"w_check", "done"}
            /\ ~holding(lock', p)]_vars

\* A write of length 0 was rejected with -1 while another context held the lock.
C7_Witness ==
  \E p, q \in Procs :
    /\ p # q
    /\ pc[p] = "done" /\ op[p] = "write" /\ reqn[p] = 0 /\ ret[p] = -1
    /\ holding(lock, q)

\* C8: a randomwrite of length 1 from an invalid source returns -1 and leaves
\* the seed as it was.
C8_CopyFaultKeepsSeed ==
  [][\A p \in Procs :
       (CopyIn(p) /\ ~ValidAt(fd[p], addr[p])) =>
         (ret'[p] = -1 /\ seed' = seed)]_vars

\* C9: every step of randomread, randomwrite or randominit that reads or
\* assigns rand.seed is taken by a context holding the lock.
C9_SeedUnderLock == access.held

\* C9 (amended): every step of randomread or randomwrite that reads or assigns
\* rand.seed is taken by a context holding the lock; randominit assigns the
\* seed without the lock.
C9_SeedUnderLockInCalls ==
  /\ access.by \in Procs => access.held
  /\ access.by = BootCtx => ~access.held

\* A call accessed the seed under the lock while another context waited for it.
C9_Witness ==
  \E p, q \in Procs :
    p # q /\ access.by = p /\ access.held /\ holding(lock, p) /\ Waiting(q)

\* C10: at most one call is between its acquire and its release.
C10_MutualExclusion ==
  \A p, q \in Procs : (InCS(p) /\ InCS(q)) => p = q

\* One call is in its critical section and another is waiting to enter.
C10_Witness ==
  \E p, q \in Procs : p # q /\ InCS(p) /\ Waiting(q)

\* C11: a context that has returned from randomread or randomwrite, on any
\* exit path, does not hold the lock, and the lock is locked exactly while
\* some call is between its acquire and its release (so it is free whenever
\* no call is in progress).
C11_ReleasedOnExit ==
  /\ \A p \in Procs : pc[p] \in {"idle", "done"} => ~holding(lock, p)
  /\ lock.locked = 1 <=> \E p \in Procs : InCS(p) /\ holding(lock, p)

\* A read cut short by a failed copy and a write with a copy fault have both
\* returned, and the lock is free.
C11_Witness ==
  \E p, q \in Procs :
    /\ pc[p] = "done" /\ op[p] = "read" /\ failed[p] >= 1
    /\ pc[q] = "done" /\ op[q] = "write" /\ reqn[q] = 1 /\ ret[q] = -1
    /\ lock.locked = 0

\* C12: randominit sets the seed to 0x2A before any read or write can be
\* served, and the handlers are not in the device table before the seed
\* holds 0x2A.
C12_SeedBeforeHandlers ==
  /\ \A p \in Procs : pc[p] # "idle" => initpc = "done"
  /\ (devsw.read \/ devsw.write) => initpc = "done"

\* C12 (amended): the handlers are registered before the seed is assigned, but
\* no call is served before randominit has finished; the seed then holds
\* 0x2A, the first call served finds 0x2A at its acquire, and a first read
\* emits from 0x2A on.
C12_SeedBeforeService ==
  /\ \A p \in Procs : pc[p] # "idle" => initpc = "done"
  /\ (initpc = "seed") => (devsw.read /\ devsw.write /\ seed = 0)
  /\ (initpc = "done" /\ calls = 0) => seed = 42
  /\ \A p \in Procs :
       (calls = 1 /\ InCS(p)) =>
         /\ seed0[p] = 42
         /\ op[p] = "read" =>
              seed = Iter(i[p] + (IF failed[p] # 0 THEN 1 ELSE 0), 42)

\* The first call served is a read and its first byte is lfsr_char(0x2A).
C12_Witness ==
  \E p \in Procs :
    calls = 1 /\ pc[p] = "r_loop" /\ i[p] = 1 /\ seed0[p] = 42 /\ seed = 149

\* The first bytes of the sequence from 0x2A: 0x95, 0xCA, 0xE5, 0x72.
Golden == << 149, 202, 229, 114 >>

\* C13: after randominit, with no write and every copy succeeding, the k-th
\* byte emitted by the reads is lfsr_char applied k times to 0x2A, beginning
\* 0x95, 0xCA, 0xE5, 0x72; the seed and the byte in the destination are that
\* value, so they depend on the number of bytes emitted alone.
C13_GoldenSequence ==
  /\ (gold = 0 /\ initpc = "done") => seed = 42
  /\ gold >= 1 =>
       /\ seed = Iter(gold, 42)
       /\ gold <= Len(Golden) => seed = Golden[gold]
       /\ \A p \in Procs :
            (pc[p] = "r_loop" /\ i[p] >= 1) => ByteAt(fd[p], addr[p]) = seed

\* Two successive reads have emitted eleven bytes between them.
C13_Witness ==
  \E p \in Procs :
    calls = 2 /\ gold = 11 /\ pc[p] = "r_loop" /\ seed = Iter(11, 42)

\* The step taken is context p emitting one byte (a loop iteration whose
\* copy succeeded).
Emit(p) == pc[p] = "r_loop" /\ i'[p] = i[p] + 1

\* C14: lfsr_char(0x00) = 0x00, and once the seed is 0x00 every read emits
\* 0x00 and leaves the seed at 0x00; only a randomwrite that succeeds in
\* storing a non-zero byte moves the seed away from 0x00.
C14_ZeroFixedPoint ==
  [][/\ lfsr_char(0) = 0
     /\ (initpc = "done" /\ seed = 0) =>
          /\ seed' = 0 \/ \E p \in Procs : CopyIn(p) /\ ret'[p] = 0
          /\ \A p \in Procs :
               Emit(p) => (seed' = 0 /\ ByteAt(fd[p], addr[p])' = 0)]_vars

\* A read that found the seed at 0x00 has emitted a byte into the kernel
\* buffer, which now holds 0x00, and the seed is still 0x00.
C14_Witness ==
  \E p \in Procs :
    /\ pc[p] = "r_loop" /\ i[p] = 1 /\ seed0[p] = 0 /\ seed = 0
    /\ fd[p] = 0 /\ ByteAt(fd[p], addr[p]) = 0

\* C15: under fair scheduling every randomread and randomwrite call that has
\* been dispatched eventually returns, and a held lock is eventually free.
C15_CallsReturn ==
  /\ \A p \in Procs : (pc[p] \notin {"idle", "done"}) ~> (pc[p] = "done")
  /\ (lock.locked = 1) ~> (lock.locked = 0)

\* A context waits for the lock while a read of the full 8 bytes holds it.
C15_Witness ==
  \E p, q \in Procs :
    p # q /\ Waiting(q) /\ pc[p] = "r_loop" /\ n[p] = 8 /\ holding(lock, p)

\* The step taken belongs to context p, which holds the lock inside its
\* critical section.
HolderStep(p) ==
  /\ InCS(p) /\ holding(lock, p)
  /\ pc'[p] # pc[p] \/ i'[p] # i[p]

\* C16: a randomread is atomic.  From the acquire of the lock to its release
\* the seed is the LFSR chain started at the seed found at the acquire (byte
\* 1 is lfsr_char of that seed, byte k + 1 is lfsr_char of byte k), each byte
\* handed to the copy-out is the seed just computed, and once the device is
\* set up the seed and the buffers change only in a step of the one context
\* that holds the lock, so the calls take effect one after the other in the
\* order of their acquires.
C16_ReadAtomic ==
  [][/\ \A p \in Procs :
          (op'[p] = "read" /\ pc'[p] \in {"r_loop", "r_release"}) =>
            seed' = Iter(i'[p] + (IF failed'[p] # 0 THEN 1 ELSE 0), seed0'[p])
     /\ \A p \in Procs :
          Emit(p) => /\ seed' = lfsr_char(seed)
                     /\ ByteAt(fd[p], addr[p])' = seed'
     /\ \A p \in Procs :
          (op'[p] = "write" /\ pc'[p] = "w_copy") => seed' = seed0'[p]
     /\ (initpc = "done" /\ (seed' # seed \/ umem' # umem \/ kmem' # kmem)) =>
          \E p \in Procs : HolderStep(p) /\ pc[p] \in {"r_loop", "w_copy"}]_vars

\* A read has emitted three bytes of its chain while another context waits
\* to reseed the device.
C16_Witness ==
  \E p, q \in Procs :
    /\ p # q
    /\ pc[p] = "r_loop" /\ i[p] = 3 /\ seed = Iter(3, seed0[p])
    /\ pc[q] = "w_acquire" /\ reqn[q] = 1

\* C17: the copy-in of randomwrite is the copy primitive applied to the
\* caller's indicator (the first argument) and the caller's source address:
\* a kernel source is read as a kernel address, a user source as a user
\* address, as randomread does for its copy-out.
C17_WriteUsesIndicator ==
  [][\A p \in Procs :
       CopyIn(p) =>
         LET ci == either_copyin(seed, fd[p], addr[p])
         IN  seed' = ci.val /\ ret'[p] = ci.rc]_vars

\* C18: a randomread asked for n <= 0 bytes returns 0, never runs the body of
\* the loop (no copy-out, seed as found), and takes the lock once and
\* releases it once: acquire, loop test, release, return; and whatever n is,
\* the value a randomread returns lies in 0..8.
C18_EmptyRead ==
  [][/\ \A p \in Procs :
          (op[p] = "read" /\ reqn[p] <= 0 /\ pc'[p] # pc[p]) =>
            /\ << pc[p], pc'[p] >> \in
                 { << "r_acquire", "r_loop" >>, << "r_loop", "r_release" >>,
                   << "r_release", "done" >>, << "done", "idle" >> }
            /\ pc[p] = "r_acquire" =>
                 (lock.locked = 0 /\ holding(lock', p))
            /\ pc[p] = "r_loop" =>
                 (holding(lock, p) /\ lock' = lock /\ i[p] = 0)
            /\ pc[p] = "r_release" =>
                 (holding(lock, p) /\ lock'.locked = 0 /\ ret'[p] = 0)
            /\ pc[p] # "done" =>
                 (seed' = seed /\ umem' = umem /\ kmem' = kmem /\ i'[p] = 0)
     /\ \A p \in Procs :
          (op[p] = "read" /\ reqn[p] <= 0) => ~Emit(p)
     /\ \A p \in Procs :
          (op'[p] = "read" /\ pc'[p] = "done") => ret'[p] \in 0..8]_vars

\* A read asked for -1 bytes has returned 0 with the lock free again.
C18_Witness ==
  \E p \in Procs :
    /\ op[p] = "read" /\ reqn[p] = -1 /\ pc[p] = "done" /\ ret[p] = 0
    /\ seed = seed0[p] /\ lock.locked = 0

\* The values lfsr_char takes on the 8-bit arguments.
LfsrImage == { lfsr_char(s) : s \in Byte }

\* The 8-bit arguments lfsr_char sends to 0.
LfsrZeros == { s \in Byte : lfsr_char(s) = 0 }

\* C19: lfsr_char is a bijection on the 8-bit values (its image on the 256
\* arguments is all 256 values, 0 the only argument sent to 0), so once randominit has
\* run a non-zero seed becomes 0 only in the copy-in of a randomwrite that
\* succeeds and stores the byte 0; a read keeps a non-zero seed non-zero.
C19_ZeroOnlyByWrite ==
  [][/\ LfsrImage = Byte
     /\ LfsrZeros = {0}
     /\ (initpc = "seed" /\ initpc' = "done") => seed' # 0
     /\ (initpc = "done" /\ seed # 0 /\ seed' = 0) =>
          \E p \in Procs :
            /\ CopyIn(p) /\ ret'[p] = 0
            /\ either_copyin(seed, addr[p], addr[p]).val = 0
     /\ \A p \in Procs : (Emit(p) /\ seed # 0) => seed' # 0]_vars

\* A successful randomwrite has stored 0x00 over a non-zero seed.
C19_Witness ==
  \E p \in Procs :
    /\ pc[p] = "w_release" /\ ret[p] = 0
    /\ seed0[p] # 0 /\ seed = 0

\* C20: the generator has full period on the non-zero states.  Advanced from
\* any non-zero seed (0x2A among them) with no write, the seed stays
\* non-zero, takes no value twice and does not come back to its starting
\* value in fewer than 255 advances; the 255th advance brings it back to the
\* starting value, every value of 1..255 having been visited exactly once.
C20_FullPeriod ==
  LET k == Len(orbit)
  IN  /\ k >= 1 =>
           /\ orbit[k] \in Byte \ {0}
           /\ orbit[k] = lfsr_char(IF k = 1 THEN lfsr_in ELSE orbit[k - 1])
           /\ \A j \in 1..(k - 1) : orbit[j] # orbit[k]
           /\ k < Period => orbit[k] # lfsr_in
      /\ k = Period =>
           /\ orbit[k] = lfsr_in
           /\ { orbit[j] : j \in 1..k } = Byte \ {0}
           /\ k = 255

\* The seed 0x2A is back at 0x2A after a full turn of 255 advances.
C20_Witness == lfsr_in = 42 /\ Len(orbit) = Period /\ orbit[Len(orbit)] = 42

====
